---- MODULE Spec2Model ----
(***************************************************************************)
(* The annotation layer of dolfin-adjoint: the variable registry           *)
(* (adjglobals.adj_variables), the tape (adjglobals.adjointer) and the     *)
(* overloaded operations that write to them (Function.assign,              *)
(* Function.interpolate, Function.project, AdjointPETScKrylovSolver.solve),*)
(* forward replay and the reverse sweep of compute_gradient.               *)
(*                                                                         *)
(* A variable is <<name, timestep, iteration>>.  A registry entry is       *)
(* NoVer or <<timestep, iteration>>.  Values of functions are integers.    *)
(***************************************************************************)
EXTENDS Integers, Sequences, FiniteSets, TLC

\* ---------------------------------------------------------------- bounds
MaxOps == 3         \* calls on the tape (overloaded operations, replays, gradients)
                    \* made between two clears of the tape
MaxTimestep == 1    \* value of the registry's timestep counter
MaxTerms == 3       \* terms of a linear combination passed to Function.assign
MaxLinComAssigns == 2  \* assignments of linear combinations between two clears
MaxBcs == 2         \* boundary conditions in b.bcs
MaxQueries == 6     \* calls of dependencies() on one functional object
MaxCached == 2      \* objects created by the assembly and solver caches

\* ---------------------------------------------------------------- names
Funcs == {"f", "g"}               \* Functions of the space V that are assigned to
ReadOnly == {"h"}                 \* a Function of the space V that is only read
OtherSpace == {"w"}               \* a Function of another space W, only read
CopySeq == <<"c">>                \* Functions produced by self.copy(deepcopy=True)
CopyNames == {CopySeq[i] : i \in 1..Len(CopySeq)}
ConstNames == {"k"}               \* a Constant / Expression (not a Function)
Names == Funcs \cup ReadOnly \cup OtherSpace \cup CopyNames \cup ConstNames

\* function_space() of each Function; a Constant has none
fspace == [n \in Names |-> IF n \in OtherSpace THEN "W"
                            ELSE IF n \in ConstNames THEN "none" ELSE "V"]

NoVer == <<>>

VARIABLES
  coeffs,             \* adj_variables.coeffs: Names -> NoVer or <<timestep, iteration>>
  libadjoint_timestep,\* adj_variables.libadjoint_timestep
  equations,          \* adjointer: the registered equations, in registration order
  stored,             \* adjointer: variable -> recorded value (record_variable)
  tapeState,          \* "BUILDING" or "FROZEN"
  val,                \* backend: the value each Function holds now
  stop_annotating,    \* parameters["adjoint"]["stop_annotating"]
  record_all,         \* parameters["adjoint"]["record_all"]
  backendName,        \* backend.__name__
  copies,             \* number of copy Functions created
  sweeping,           \* compute_gradient is running
  sweepPos,           \* compute_gradient: index of the next equation to process
  adj,                \* compute_gradient: variable -> adjoint value accumulated so far
  functional,         \* compute_gradient: the Function J is a functional of, or "none"
  sweepOrder,         \* history: the equations processed by the sweep, in order
  nextLog,            \* history: per name, the versions next() returned since the last clear
  lastOp,             \* history: the last call that works on the tape and how it ended
  nOps,               \* history: the calls on the tape made since the last clear
  bypassed,           \* history: some call since the last clear went past the tape (OffTape)
  matrix_free,        \* the operator, right-hand side and block of one matrix-free solve
  final_functional,   \* one FinalFunctional: its activated flag and the queries made of it
  caches,             \* assembly_cache and linear_solver_cache, and the last call on them
  call                \* the last call of a function that has no state, and what it returned

tapeVars == <<coeffs, libadjoint_timestep, equations, stored, tapeState, val,
              stop_annotating, record_all, backendName, copies, sweeping,
              sweepPos, adj, functional, sweepOrder, nextLog, lastOp, nOps, bypassed>>

\* the objects outside the registry and the tape
auxVars == <<matrix_free, final_functional, caches, call>>

vars == <<tapeVars, auxVars>>

\* ------------------------------------------------------- variable registry
\* A registry-and-tape record T threads the Python statements of one call:
\*   [coeffs, eqs, stored, log, err]; once err # "none" an exception is in
\*   flight and every later statement of the call is skipped.

VarOf(c, n) == <<n, c[n][1], c[n][2]>>

variable_known(eqs, v) == \E i \in 1..Len(eqs) : eqs[i].target = v

\* adj_variables[coeff]: the latest version, created at (timestep, 0) when absent
Current(t, n, ts) ==
  IF t.err # "none" \/ t.coeffs[n] # NoVer THEN t
  ELSE [t EXCEPT !.coeffs[n] = <<ts, 0>>]

\* adj_variables.next(coeff)
NextVersionRestart(c, n, ts) == <<ts, 0>>

NextVersionBug(c, n, ts) ==
  IF c[n] # NoVer THEN c[n] ELSE <<ts, 0>>

NextVersion(c, n, ts) ==
  IF c[n] # NoVer /\ c[n][1] = ts THEN <<ts, c[n][2] + 1>> ELSE <<ts, 0>>

Next_(t, n, ts) ==
  IF t.err # "none" THEN t
  ELSE [t EXCEPT !.coeffs[n] = NextVersion(t.coeffs, n, ts),
                 !.log = Append(@, <<n>> \o NextVersion(t.coeffs, n, ts))]

\* adj_variables.forget(coeff)
Forget(t, n) ==
  IF t.err # "none" \/ t.coeffs[n] = NoVer THEN t
  ELSE IF variable_known(t.eqs, VarOf(t.coeffs, n)) THEN [t EXCEPT !.err = "StateError"]
  ELSE [t EXCEPT !.coeffs[n] = NoVer]

RECURSIVE ForgetAll(_, _)
ForgetAll(t, ns) ==
  IF ns = <<>> THEN t ELSE ForgetAll(Forget(t, Head(ns)), Tail(ns))

RECURSIVE CurrentAll(_, _, _)
CurrentAll(t, ns, ts) ==
  IF ns = <<>> THEN t ELSE CurrentAll(Current(t, Head(ns), ts), Tail(ns), ts)

\* ------------------------------------------------------------------- tape
Equation(target, deps, kind, const) ==
  [target |-> target, deps |-> deps, kind |-> kind, const |-> const]

\* adjointer.register_equation
register_equation_nofreeze(t, eq, state) ==
  IF t.err # "none" THEN t
  ELSE IF variable_known(t.eqs, eq.target) THEN [t EXCEPT !.err = "TargetKnown"]
  ELSE [t EXCEPT !.eqs = Append(@, eq)]

register_equation(t, eq, state) ==
  IF t.err # "none" THEN t
  ELSE IF state = "FROZEN" THEN [t EXCEPT !.err = "TapeStateError"]
  ELSE IF variable_known(t.eqs, eq.target) THEN [t EXCEPT !.err = "TargetKnown"]
  ELSE [t EXCEPT !.eqs = Append(@, eq)]

\* adjointer.record_variable
record_variable(t, v, x) ==
  IF t.err # "none" THEN t
  ELSE [t EXCEPT !.stored = [u \in DOMAIN t.stored \cup {v} |->
                               IF u = v THEN x ELSE t.stored[u]]]

\* register_initial_condition: an equation with no dependency whose value is
\* the Function's value now; that value is kept.
register_initial_condition(t, n, state, values) ==
  record_variable(register_equation(t, Equation(VarOf(t.coeffs, n), <<>>, "ic", values[n]), state),
                  VarOf(t.coeffs, n), values[n])

\* register_initial_conditions(zip(coefficients, dependencies)): every
\* dependency that is not known becomes an initial condition
RECURSIVE register_initial_conditions(_, _, _, _)
register_initial_conditions(t, ns, state, values) ==
  IF ns = <<>> \/ t.err # "none" THEN t
  ELSE register_initial_conditions(
         IF variable_known(t.eqs, VarOf(t.coeffs, Head(ns))) THEN t
         ELSE register_initial_condition(t, Head(ns), state, values),
         Tail(ns), state, values)

\* do_checkpoint(cs, var, rhs): the storage policy's decision on the handle;
\* under the in-memory policy nothing further is written.
do_checkpoint(t) == t

\* utils.to_annotate(annotate): "Error" when the user insists while annotation is stopped
to_annotate(annotate, stop) ==
  IF annotate = "None" THEN (IF stop THEN "no" ELSE "yes")
  ELSE IF annotate = "True" THEN (IF stop THEN "Error" ELSE "yes")
  ELSE "no"


\* ------------------------------------------------- assignment.register_assign
\* new := op(old): one equation for the next version of new, after the
\* initial condition of old when old is a Function the tape has not seen.

\* under record_all the value of a Function source is kept for the new version
RecordAssigned(t, new, old, values, recAll) ==
  IF recAll /\ old \notin ConstNames
  THEN record_variable(t, VarOf(t.coeffs, new), values[old])
  ELSE t

\* the dependency of the equation: the source's latest version
CurrentOfSource(t, old, ts) == IF old \in ConstNames THEN t ELSE Current(t, old, ts)

RegisterIdentity(t, new, old, kind, state, values) ==
  IF t.err # "none" THEN t
  ELSE IF old \in ConstNames
  THEN register_equation(t, Equation(VarOf(t.coeffs, new), <<>>, kind, values[old]), state)
  ELSE register_equation(register_initial_conditions(t, <<old>>, state, values),
                         Equation(VarOf(t.coeffs, new), << <<VarOf(t.coeffs, old), 1>> >>, kind, 0),
                         state)

register_assign(t, new, old, kind, ts, state, values, recAll) ==
  do_checkpoint(
    RegisterIdentity(
      CurrentOfSource(RecordAssigned(Next_(t, new, ts), new, old, values, recAll), old, ts),
      new, old, kind, state, values))

\* ------------------------------------------ _check_and_contract_linear_comb
\* linear_comb is the list of (Function, weight) pairs that
\* _check_and_extract_functions reads off the expression.
LinFuncs(lc) == [i \in 1..Len(lc) |-> lc[i][1]]

IndexOf(seq, x) == IF \E i \in 1..Len(seq) : seq[i] = x
                   THEN CHOOSE i \in 1..Len(seq) : seq[i] = x /\ \A j \in 1..(i-1) : seq[j] # x
                   ELSE 0

\* every func must lie in the function space of the first one
SameSpace(lc) == \A i \in 1..Len(lc) : fspace[lc[i][1]] = fspace[lc[1][1]]

RECURSIVE ContractNoSum(_, _)
ContractNoSum(lc, acc) ==
  IF lc = <<>> THEN acc
  ELSE LET ind == IndexOf(LinFuncs(acc), lc[1][1])
       IN ContractNoSum(Tail(lc), IF ind # 0 THEN acc ELSE Append(acc, lc[1]))

RECURSIVE Contract(_, _)
Contract(lc, acc) ==
  IF lc = <<>> THEN acc
  ELSE LET ind == IndexOf(LinFuncs(acc), lc[1][1])
       IN Contract(Tail(lc),
                   IF ind # 0 THEN [acc EXCEPT ![ind] = <<@[1], @[2] + lc[1][2]>>]
                   ELSE Append(acc, lc[1]))

\* the rhs must not include self: if it does, self is replaced by a copy
ReplaceSelf(lc, self, cp) ==
  [i \in 1..Len(lc) |-> IF lc[i][1] = self THEN <<cp, lc[i][2]>> ELSE lc[i]]

\* value of a linear combination in the backend
RECURSIVE LinValue(_, _)
LinValue(lc, values) ==
  IF lc = <<>> THEN 0 ELSE lc[1][2] * values[lc[1][1]] + LinValue(Tail(lc), values)


\* ------------------------------------------------------ dolfin_adjoint_assign
\* other is [kind |-> "fn", fn |-> name], [kind |-> "const", fn |-> name] or
\* [kind |-> "lincom", terms |-> linear_comb].  The result is
\* [t, val, copies, path]: the registry and tape, the backend values, the
\* number of copies made and the return statement that ended the call.
OtherValue(other, values) ==
  IF other.kind = "lincom" THEN LinValue(other.terms, values) ELSE values[other.fn]

\* dolfin_assign(self, other)
dolfin_assign(values, self, other) ==
  [values EXCEPT ![self] = OtherValue(other, values)]

Result(t, values, ncopies, path) ==
  [t |-> t, val |-> values, copies |-> ncopies, path |-> path]

\* the call returns after its annotation, or the annotation raised
Returned(t, values, ncopies) ==
  Result(t, values, ncopies, IF t.err # "none" THEN "raise" ELSE "annotated")

\* Function.copy(deepcopy=True) of self inside _check_and_contract_linear_comb:
\* annotate is None there, so the copy is registered when annotation is on.
CopyValues(r, self) == [r.val EXCEPT ![CopySeq[r.copies + 1]] = r.val[self]]

CopySelf(r, self, ts, state, stop, recAll) ==
  Result(IF to_annotate("None", stop) = "yes"
         THEN register_assign(r.t, CopySeq[r.copies + 1], self, "assign", ts, state,
                              CopyValues(r, self), recAll)
         ELSE r.t,
         CopyValues(r, self), r.copies + 1, r.path)

\* lines 256-284 applied to the pairs of other
ContractedLinCom(r, lc, self, ts, state, stop, recAll) ==
  IF \E i \in 1..Len(lc) : lc[i][1] = self
  THEN [r |-> CopySelf(r, self, ts, state, stop, recAll),
        lincom |-> ReplaceSelf(lc, self, CopySeq[r.copies + 1])]
  ELSE [r |-> r, lincom |-> lc]

\* lines 35-42: the (function, weight) list of the assignment
LinComOf(r, self, other, ts, state, stop, recAll, backend) ==
  IF other.kind # "lincom" THEN [r |-> r, lincom |-> << <<other.fn, 1>> >>]
  ELSE IF backend # "dolfin"
    THEN [r |-> [r EXCEPT !.t.err = "NotImplemented"], lincom |-> <<>>]
  ELSE IF ~SameSpace(other.terms)
    THEN [r |-> [r EXCEPT !.t.err = "AssertionError"], lincom |-> <<>>]
  ELSE ContractedLinCom(r, Contract(other.terms, <<>>), self, ts, state, stop, recAll)

\* line 64: some source is unknown, the target is unknown and the user did not insist
PureInitialCondition(t, self, functions, annotate) ==
  /\ annotate # "True"
  /\ ~variable_known(t.eqs, VarOf(t.coeffs, self))
  /\ \E i \in 1..Len(functions) : ~variable_known(t.eqs, VarOf(t.coeffs, functions[i]))

\* line 71
ForgetTargetAlways(t, self) == TRUE

ForgetTarget(t, self) == ~variable_known(t.eqs, VarOf(t.coeffs, self))

\* lines 80-81
RecordTarget(t, self, values, recAll) ==
  IF recAll THEN record_variable(t, VarOf(t.coeffs, self), values[self]) ELSE t

\* LinComRHS.dependencies, line 367
LinComDeps(t, lincom) ==
  [i \in 1..Len(lincom) |-> <<VarOf(t.coeffs, lincom[i][1]), lincom[i][2]>>]

\* lines 83-86
RegisterLinCom(t, self, lincom, state, values) ==
  IF t.err # "none" THEN t
  ELSE register_equation(register_initial_conditions(t, LinFuncs(lincom), state, values),
                         Equation(VarOf(t.coeffs, self), LinComDeps(t, lincom), "assign", 0),
                         state)

\* lines 78-88: allocate the target, record it, register the equation
AnnotateAssign(t, values, self, lincom, ts, state, recAll) ==
  do_checkpoint(
    RegisterLinCom(
      CurrentAll(RecordTarget(Next_(t, self, ts), self, values, recAll), LinFuncs(lincom), ts),
      self, lincom, state, values))

\* lines 65-68: t is the registry after the forgets
AssignInitial(t, r, self, other) ==
  IF t.err # "none" THEN Result(t, r.val, r.copies, "raise")
  ELSE Result(t, dolfin_assign(r.val, self, other), r.copies, "plain_initial")

\* lines 74-90: t is the registry after line 72
AssignAnnotated(t, r, lincom, self, other, ts, state, recAll) ==
  IF t.err # "none" THEN Result(t, r.val, r.copies, "raise")
  ELSE Returned(AnnotateAssign(t, dolfin_assign(r.val, self, other), self, lincom,
                               ts, state, recAll),
                dolfin_assign(r.val, self, other), r.copies)

\* lines 60-90: t is the registry after lines 56-58
AssignTracked(t, r, lincom, self, other, annotate, ts, state, recAll) ==
  IF PureInitialCondition(t, self, LinFuncs(lincom), annotate)
  THEN AssignInitial(Forget(ForgetAll(t, LinFuncs(lincom)), self), r, self, other)
  ELSE AssignAnnotated(IF ForgetTarget(t, self) THEN Forget(t, self) ELSE t,
                       r, lincom, self, other, ts, state, recAll)

\* lines 44-90: lr is the result of lines 35-42
AssignLinCom(lr, self, other, annotate, ts, state, recAll) ==
  IF lr.r.t.err # "none" THEN [lr.r EXCEPT !.path = "raise"]
  ELSE IF other.kind # "fn" /\ annotate # "True"
    THEN Result(lr.r.t, dolfin_assign(lr.r.val, self, other), lr.r.copies, "plain_nonfunction")
  ELSE IF other.kind = "fn" /\ fspace[self] # fspace[other.fn]
    THEN Result(lr.r.t, dolfin_assign(lr.r.val, self, other), lr.r.copies, "plain_interpolation")
  ELSE AssignTracked(CurrentAll(Current(lr.r.t, self, ts), LinFuncs(lr.lincom), ts),
                     lr.r, lr.lincom, self, other, annotate, ts, state, recAll)

dolfin_adjoint_assign(t, values, ncopies, self, other, annotate, ts, state, stop, recAll, backend) ==
  IF other.kind = "fn" /\ other.fn = self THEN Result(t, values, ncopies, "self")
  ELSE IF to_annotate(annotate, stop) = "Error"
    THEN Result([t EXCEPT !.err = "AssertionError"], values, ncopies, "raise")
  ELSE IF to_annotate(annotate, stop) = "no"
    THEN Result(t, dolfin_assign(values, self, other), ncopies, "plain")
  ELSE AssignLinCom(LinComOf(Result(t, values, ncopies, "none"), self, other, ts, state,
                             stop, recAll, backend),
                    self, other, annotate, ts, state, recAll)


\* ---------------------------------------------- AdjointPETScKrylovSolver.solve
\* A is [transpmult, hasDeps, deps, setdeps], x is [hasFunction, fn],
\* b is [hasForm, coeffs].  annotate follows Python truth: only "True" is true.
Truthy(annotate) == annotate = "True"

RECURSIVE SumVals(_, _)
SumVals(ns, values) ==
  IF ns = <<>> THEN 0 ELSE values[Head(ns)] + SumVals(Tail(ns), values)

\* dolfin.PETScKrylovSolver.solve(self, A, x, b): the value x.function gets
SolveValueRhsOnly(A, b, values) == 3 + SumVals(b.coeffs, values)

SolveValue(A, b, values) == 3 + SumVals(b.coeffs, values) + SumVals(A.deps, values)

UnitDeps(t, ns) == [i \in 1..Len(ns) |-> <<VarOf(t.coeffs, ns[i]), 1>>]

\* line 78: the Functions whose initial conditions the solve registers, those of
\* the right-hand side and then those of the operator
InitialConditionsOfRhs(b, coeffs_) == b.coeffs

InitialConditionsOf(b, coeffs_) == b.coeffs \o coeffs_

\* lines 62-68: the Functions the operator depends on
MatrixCoeffs(A) == IF A.hasDeps THEN A.deps ELSE <<>>

\* lines 114-115: t is the registry after next(x.function)
RegisterSolve(t, deps, x, state) ==
  register_equation(t, Equation(VarOf(t.coeffs, x.fn), deps, "solve", 3), state)

\* lines 73-116: t is the registry after the dependencies were looked up
AnnotateSolveRegister(t, values, A, x, b, ts, state) ==
  do_checkpoint(
    RegisterSolve(
      Next_(register_initial_conditions(t, InitialConditionsOf(b, MatrixCoeffs(A)), state, values),
            x.fn, ts),
      UnitDeps(t, b.coeffs) \o UnitDeps(t, MatrixCoeffs(A)), x, state))

\* lines 50-60: A has a transpose action, x a .function and b a .form
ValidInputsNoTranspose(A, x, b) == x.hasFunction /\ b.hasForm

ValidInputs(A, x, b) == A.transpmult /\ x.hasFunction /\ b.hasForm

\* lines 49-116
AnnotateSolve(t, values, A, x, b, ts, state) ==
  IF ~ValidInputs(A, x, b) THEN [t EXCEPT !.err = "InvalidInputs"]
  ELSE IF Len(MatrixCoeffs(A)) > 0 /\ ~A.setdeps
    THEN [CurrentAll(t, MatrixCoeffs(A), ts) EXCEPT !.err = "AssertionError"]
  ELSE AnnotateSolveRegister(CurrentAll(CurrentAll(t, MatrixCoeffs(A), ts), b.coeffs, ts),
                             values, A, x, b, ts, state)

\* lines 118-124: t is the registry after the annotation
SolveBackend(t, values, A, x, b, annotate, ok, recAll) ==
  IF t.err # "none" THEN Result(t, values, 0, "raise")
  ELSE IF ~ok THEN Result([t EXCEPT !.err = "SolveError"], values, 0, "raise")
  ELSE Result(IF Truthy(annotate) /\ recAll
              THEN record_variable(t, VarOf(t.coeffs, x.fn), SolveValue(A, b, values))
              ELSE t,
              [values EXCEPT ![x.fn] = SolveValue(A, b, values)], 0,
              IF Truthy(annotate) THEN "annotated" ELSE "plain")

\* lines 47-124; ok says whether the backend solve returns or raises
KrylovSolve(t, values, A, x, b, annotate, ok, ts, state, recAll) ==
  SolveBackend(IF Truthy(annotate) THEN AnnotateSolve(t, values, A, x, b, ts, state) ELSE t,
               values, A, x, b, annotate, ok, recAll)

\* ------------------------------------------------- dolfin_adjoint_interpolate
InterpolateAnnotates(annotate) == annotate = "True"

\* dolfin_interpolate(self, other)
dolfin_interpolate(values, self, other) == [values EXCEPT ![self] = values[other]]

\* line 113
RecordCurrent(t, self, values) == record_variable(t, VarOf(t.coeffs, self), values[self])

\* lines 109-115
dolfin_adjoint_interpolate_norecord(t, values, self, other, annotate, ts, state, recAll) ==
  IF InterpolateAnnotates(annotate)
  THEN Returned(register_assign(t, self, other, "interpolate", ts, state,
                                dolfin_interpolate(values, self, other), recAll),
                dolfin_interpolate(values, self, other), 0)
  ELSE Result(t, dolfin_interpolate(values, self, other), 0, "plain")

dolfin_adjoint_interpolate(t, values, self, other, annotate, ts, state, recAll) ==
  IF InterpolateAnnotates(annotate)
  THEN Returned(RecordCurrent(register_assign(t, self, other, "interpolate", ts, state,
                                              dolfin_interpolate(values, self, other), recAll),
                              self, dolfin_interpolate(values, self, other)),
                dolfin_interpolate(values, self, other), 0)
  ELSE Result(t, dolfin_interpolate(values, self, other), 0, "plain")

\* Function.interpolate, lines 198-202
Function_interpolate(t, values, self, other, annotate, ts, state, stop, recAll) ==
  IF annotate = "True" /\ stop
  THEN Result([t EXCEPT !.err = "AssertionError"], values, 0, "raise")
  ELSE dolfin_adjoint_interpolate(t, values, self, other, annotate, ts, state, recAll)


\* ------------------------------------------------------------ replay_forward
\* index of the equation that targets v, 0 when there is none
EqIndex(eqs, v) == IF variable_known(eqs, v)
                   THEN CHOOSE i \in 1..Len(eqs) : eqs[i].target = v
                   ELSE 0

\* evaluate of an equation's blocks on the replayed values of its dependencies
RECURSIVE DepSum(_, _, _)
DepSum(deps, eqs, acc) ==
  IF deps = <<>> THEN 0
  ELSE LET i == EqIndex(eqs, deps[1][1])
           x == IF i = 0 \/ i > Len(acc) THEN 0 ELSE acc[i]
       IN deps[1][2] * x + DepSum(Tail(deps), eqs, acc)

Evaluate(eq, eqs, acc) == eq.const + DepSum(eq.deps, eqs, acc)

\* the values of all equations, recomputed in registration order
RECURSIVE ReplayValues(_, _)
ReplayValues(eqs, acc) ==
  IF Len(acc) = Len(eqs) THEN acc
  ELSE ReplayValues(eqs, Append(acc, Evaluate(eqs[Len(acc) + 1], eqs, acc)))

\* every dependency is the target of an earlier equation
Resolvable(eqs) ==
  \A i \in 1..Len(eqs) : \A d \in 1..Len(eqs[i].deps) :
     LET j == EqIndex(eqs, eqs[i].deps[d][1]) IN j # 0 /\ j < i

StoredMatch(eqs, sto, vals) ==
  \A i \in 1..Len(eqs) : eqs[i].target \in DOMAIN sto => sto[eqs[i].target] = vals[i]

replay_forward(eqs, sto) ==
  Resolvable(eqs) /\ StoredMatch(eqs, sto, ReplayValues(eqs, <<>>))

\* a call went past the tape: it changed the value of a Function whose latest
\* version is known and stays the latest, or it registered an equation for a
\* value the backend never produced (the backend solve raised)
OffTape(c, eqs, values, r) ==
  \/ \E n \in Names : /\ c[n] # NoVer
                      /\ variable_known(eqs, VarOf(c, n))
                      /\ r.t.coeffs[n] = c[n]
                      /\ r.val[n] # values[n]
  \/ r.t.err = "SolveError"


\* ----------------------------------------------------------- Function.project
\* lines 170-184 (firedrake only: firedrake_project is undefined under dolfin).
\* With annotation on, the backend projection is recorded as one equation.
ProjectPausesNever(toAnn) == FALSE

ProjectPauses(toAnn) == toAnn = "no"

\* firedrake_project(self, other)
firedrake_project(values, self, other) == [values EXCEPT ![self] = values[other]]

Function_project(t, values, self, other, annotate, ts, state, stop, recAll, backend) ==
  IF to_annotate(annotate, stop) = "Error"
    THEN Result([t EXCEPT !.err = "AssertionError"], values, 0, "raise")
  ELSE IF backend = "dolfin" THEN Result([t EXCEPT !.err = "NameError"], values, 0, "raise")
  ELSE IF ProjectPauses(to_annotate(annotate, stop)) \/ stop
    THEN Result(t, firedrake_project(values, self, other), 0, "plain")
  ELSE Returned(register_assign(t, self, other, "project", ts, state,
                                firedrake_project(values, self, other), recAll),
                firedrake_project(values, self, other), 0)

\* parameters["adjoint"]["stop_annotating"] when project returns or raises:
\* continue_annotation(flag) is not reached when firedrake_project is undefined
StopAfterProject(annotate, stop, backend) ==
  IF /\ to_annotate(annotate, stop) # "Error"
     /\ ProjectPauses(to_annotate(annotate, stop))
     /\ backend = "dolfin"
  THEN TRUE ELSE stop

\* ---------------------------------------------------------- compute_gradient
\* FinalFunctional.dependencies: the variables of the form's coefficients
functional_dependencies(c, j, ts) == IF c[j] = NoVer THEN [c EXCEPT ![j] = <<ts, 0>>] ELSE c

AdjOf(a, v) == IF v \in DOMAIN a THEN a[v] ELSE 0

\* derivative_action(transpose=true) of the equation's blocks for every
\* dependency, added to that dependency's running adjoint value
RECURSIVE Accumulate(_, _, _)
Accumulate(a, deps, seed) ==
  IF deps = <<>> THEN a
  ELSE LET v == deps[1][1]
           a1 == [u \in DOMAIN a \cup {v} |->
                    IF u = v THEN AdjOf(a, v) + deps[1][2] * seed ELSE a[u]]
       IN Accumulate(a1, Tail(deps), seed)

\* the value of every equation's target, in registration order: the stored
\* value of a target that is retained (in R) and has one, the value recomputed
\* from the values of the dependencies otherwise
RetainedValue(eq, eqs, sto, R, acc) ==
  IF eq.target \in R /\ eq.target \in DOMAIN sto THEN sto[eq.target]
  ELSE Evaluate(eq, eqs, acc)

RECURSIVE TapeValues(_, _, _, _)
TapeValues(eqs, sto, R, acc) ==
  IF Len(acc) = Len(eqs) THEN acc
  ELSE CHOOSE vals \in
         {TapeValues(eqs, sto, R, next) :
            next \in {Append(acc, RetainedValue(eqs[Len(acc) + 1], eqs, sto, R, acc))}} : TRUE

\* the value of the variable v among vals, 0 when no equation targets it
ValueAt(eqs, vals, v) == IF EqIndex(eqs, v) = 0 THEN 0 ELSE vals[EqIndex(eqs, v)]

\* the factor derivative_action(transpose=true) of equation i applies to the
\* seed for a dependency v: the weight for an assignment, an interpolation or a
\* projection; for a Krylov solve the action is evaluated at the values of the
\* dependency and of the solution
ActionFactor(eqs, vals, i, v) ==
  IF eqs[i].kind = "solve" THEN ValueAt(eqs, vals, v) * vals[i] ELSE 1

\* LinComRHS.derivative_action, lines 377-412: idx = dependencies.index(variable),
\* the result is weights[idx] * contraction_vector
derivative_action_first(deps, variable, contraction_vector) ==
  deps[1][2] * contraction_vector

derivative_action(deps, variable, contraction_vector) ==
  deps[IndexOf(LinFuncs(deps), variable)][2] * contraction_vector

ActionDeps(eqs, vals, i) ==
  [d \in 1..Len(eqs[i].deps) |->
     <<eqs[i].deps[d][1],
       derivative_action(eqs[i].deps, eqs[i].deps[d][1],
                         ActionFactor(eqs, vals, i, eqs[i].deps[d][1]))>>]

\* equation i of the reverse sweep: nothing to do when its target has no
\* adjoint value yet
SweepEquation(eqs, vals, a, i) ==
  IF AdjOf(a, eqs[i].target) # 0
  THEN Accumulate(a, ActionDeps(eqs, vals, i), AdjOf(a, eqs[i].target))
  ELSE a

\* the adjoint value the functional of j gives its own variable
FunctionalSeed(c, eqs, j) ==
  IF variable_known(eqs, VarOf(c, j)) THEN [u \in {VarOf(c, j)} |-> 1] ELSE <<>>

\* the whole reverse sweep from equation i down to the first
RECURSIVE Gradient(_, _, _, _)
Gradient(eqs, vals, a, i) ==
  IF i = 0 THEN a ELSE Gradient(eqs, vals, SweepEquation(eqs, vals, a, i), i - 1)

\* the equation the sweep processes first
SweepStartFirst(eqs) == IF eqs = <<>> THEN 0 ELSE 1

SweepStart(eqs) == Len(eqs)

\* the equation the sweep moves to after processing equation i
SweepAgain(i, changed) == IF changed THEN i ELSE i - 1

SweepNext(i, changed) == i - 1


\* ============================================================ state machine
Annotate == {"True", "None", "False"}

Fn(n) == [kind |-> "fn", fn |-> n]
Const(n) == [kind |-> "const", fn |-> n]
LinCom(lc) == [kind |-> "lincom", terms |-> lc]

\* the calls of Function.assign the forward run may make: <<self, other, annotate>>
Assignments ==
  {<<"g", Fn("f"), an>> : an \in Annotate}
  \cup {<<"f", Fn(n), "None">> : n \in {"g", "f", "w"}}
  \cup {<<"f", Const("k"), an>> : an \in {"None", "True"}}
  \cup {<<"g", LinCom(<< <<"f", 2>> >>), an>> : an \in {"None", "True"}}
  \cup {<<"f", LinCom(lc), "True">> :
          lc \in {<< <<"g", 1>>, <<"f", 1>> >>, << <<"g", 1>>, <<"g", 1>> >>,
                  << <<"g", 1>>, <<"w", 1>> >>}}

\* the calls of AdjointPETScKrylovSolver.solve: the operator, the solution vector,
\* the right-hand side, annotate and whether the backend solve succeeds
KrylovMatrix(tm, d, sd) == [transpmult |-> tm, hasDeps |-> d # <<>>, deps |-> d, setdeps |-> sd]
SolveInput(tm, d, sd, hf, hb, cs, annotate, ok) ==
  [A |-> KrylovMatrix(tm, d, sd), x |-> [hasFunction |-> hf, fn |-> "f"],
   b |-> [hasForm |-> hb, coeffs |-> cs], annotate |-> annotate, ok |-> ok]
SolveInputs ==
  {SolveInput(TRUE, m[1], TRUE, TRUE, TRUE, m[2], "True", TRUE) :
       m \in {<< <<>>, <<"g">> >>, << <<"g">>, <<>> >>, << <<>>, <<"f">> >>}}
  \cup {SolveInput(TRUE, <<>>, TRUE, TRUE, TRUE, <<"g">>, "False", TRUE),
        SolveInput(TRUE, <<>>, TRUE, TRUE, TRUE, <<"g">>, "True", FALSE)}
  \cup {SolveInput(m[1], m[2], m[3], m[4], m[5], <<"g">>, "True", TRUE) :
       m \in {<<FALSE, <<>>, TRUE, TRUE, TRUE>>,
              <<TRUE, <<>>, TRUE, FALSE, TRUE>>,
              <<TRUE, <<>>, TRUE, TRUE, FALSE>>,
              <<TRUE, <<"g">>, FALSE, TRUE, TRUE>>}}

\* the calls of Function.interpolate and Function.project: <<self, other, annotate>>
Interpolations ==
  {<<"g", "k", an>> : an \in {"True", "None"}} \cup {<<"g", "f", an>> : an \in {"True", "False"}}
Projections == {<<"g", "f", an>> : an \in Annotate}

Marker(op, path) == [op |-> op, path |-> path]

InitVal == [n \in Names |-> IF n \in ConstNames THEN 3 ELSE 1]

\* ------------------------------------------------------ matrix-free blocks
\* A is the user's PETScKrylovMatrix: which action its mult and transpmult
\* perform, the form it was built from and the form it acts with now, a pair
\* <<form, values>> with values the values its coefficients were replaced by
\* (0: not replaced).  A boundary condition is [dirichlet, value]; b.bcs is a
\* list the block refers to.
KrylovOperator(m, t, form) ==
  [mult |-> m, transpmult |-> t, original_form |-> form, current_form |-> <<form, 0>>]

Bc(d, v) == [dirichlet |-> d, value |-> v]

\* dolfin.homogenize(bc)
homogenize(bc) == [bc EXCEPT !.value = 0]

\* line 99
RECURSIVE adjoint_bcs(_)
adjoint_bcs(bcs) ==
  IF bcs = <<>> THEN <<>>
  ELSE (IF bcs[1].dirichlet THEN <<homogenize(bcs[1])>> ELSE <<>>) \o adjoint_bcs(Tail(bcs))

\* AdjointKrylovMatrix.set_dependencies, lines 170-172
set_dependencies(A, values) == [A EXCEPT !.current_form = <<A.original_form, values>>]

\* lines 97-98: copy.copy(A) with the two actions exchanged
TransposedMultOnly(A) == [A EXCEPT !.mult = A.transpmult]

Transposed(A) == [A EXCEPT !.mult = A.transpmult, !.transpmult = A.mult]

\* the MatrixFree the callback returns
MatrixFree(A, bcs) == [data |-> A, bcs |-> bcs]

\* lines 93-94: A as the callback leaves it
AssemblyOperator(A, hasDeps, values) == IF hasDeps THEN set_dependencies(A, values) ELSE A

\* lines 96-102
diag_assembly_cb(A, bcs, hermitian) ==
  IF hermitian THEN MatrixFree(Transposed(A), adjoint_bcs(bcs)) ELSE MatrixFree(A, bcs)

\* the objects of one solve before solve() is called; block, registered and
\* assembled are empty or hold one element
MatrixFreeStart(t, hasDeps, bcs) ==
  [A |-> KrylovOperator("apply", t, "a"), hasDeps |-> hasDeps, b_bcs |-> bcs,
   expressions |-> 0, block |-> <<>>, registered |-> <<>>, assembled |-> <<>>]

TapeInit ==
  /\ coeffs = [n \in Names |-> NoVer]
  /\ libadjoint_timestep = 0
  /\ equations = <<>>
  /\ stored = <<>>
  /\ tapeState = "BUILDING"
  /\ val = InitVal
  /\ stop_annotating = FALSE
  /\ record_all \in BOOLEAN
  /\ backendName \in {"dolfin", "firedrake"}
  /\ copies = 0
  /\ sweeping = FALSE
  /\ sweepPos = 0
  /\ adj = <<>>
  /\ functional = "none"
  /\ sweepOrder = <<>>
  /\ nextLog = [n \in Names |-> <<>>]
  /\ lastOp = Marker("init", "none")
  /\ nOps = 0
  /\ bypassed = FALSE

\* FinalFunctional.__init__, lines 13-16
FinalFunctional == [activated |-> FALSE, queries |-> <<>>]

\* AssemblyCache.__init__ and SolverCache.__init__, caches.py lines 103-106,
\* 206-209, 382-383: both caches empty; no call made yet
Caches ==
  [assembly |-> <<>>, solver |-> <<>>, requested |-> <<>>, assembled |-> 0, solvers |-> 0,
   last |-> [op |-> "init", key |-> <<>>, raised |-> FALSE, cached |-> FALSE, returned |-> 0]]

Init ==
  /\ TapeInit
  /\ matrix_free = MatrixFreeStart("apply_transpose", FALSE, <<>>)
  /\ final_functional = FinalFunctional
  /\ caches = Caches
  /\ call = [op |-> "none"]

\* the registry and tape as a call finds them
T0 == [coeffs |-> coeffs, eqs |-> equations, stored |-> stored, log |-> <<>>, err |-> "none"]

RECURSIVE LogOf(_, _)
LogOf(log, n) ==
  IF log = <<>> THEN <<>>
  ELSE (IF log[1][1] = n THEN << <<log[1][2], log[1][3]>> >> ELSE <<>>) \o LogOf(Tail(log), n)

Idle == ~sweeping

\* the call returns (or raises): its effects on the registry, the tape and the backend
\* (copies says whether the call may have made copies of Functions)
Commit(r, op, makesCopies) ==
  /\ Idle
  /\ nOps < MaxOps
  /\ nOps' = nOps + 1
  /\ coeffs' = r.t.coeffs
  /\ equations' = r.t.eqs
  /\ stored' = r.t.stored
  /\ val' = r.val
  /\ nextLog' = [n \in Names |-> nextLog[n] \o LogOf(r.t.log, n)]
  /\ copies' = IF makesCopies THEN r.copies ELSE copies
  /\ lastOp' = Marker(op, IF r.t.err # "none" THEN r.t.err ELSE r.path)
  /\ bypassed' = (bypassed \/ OffTape(coeffs, equations, val, r))
  /\ UNCHANGED <<libadjoint_timestep, tapeState, record_all,
                 backendName, sweeping, sweepPos, adj, functional, sweepOrder, auxVars>>

Assign(self, other, annotate) ==
  /\ other.kind = "lincom" /\ (\E i \in 1..Len(other.terms) : other.terms[i][1] = self)
       => copies < Len(CopySeq)
  /\ Commit(dolfin_adjoint_assign(T0, val, copies, self, other, annotate,
                                  libadjoint_timestep, tapeState, stop_annotating,
                                  record_all, backendName), "assign", TRUE)
  /\ UNCHANGED stop_annotating

Solve(A, x, b, annotate, ok) ==
  /\ Commit(KrylovSolve(T0, val, A, x, b, annotate, ok,
                        libadjoint_timestep, tapeState, record_all), "solve", FALSE)
  /\ UNCHANGED stop_annotating

Interpolate(self, other, annotate) ==
  /\ Commit(Function_interpolate(T0, val, self, other, annotate, libadjoint_timestep,
                                 tapeState, stop_annotating, record_all), "interpolate", FALSE)
  /\ UNCHANGED stop_annotating

Project(self, other, annotate) ==
  /\ Commit(Function_project(T0, val, self, other, annotate, libadjoint_timestep,
                             tapeState, stop_annotating, record_all, backendName),
            "project", FALSE)
  /\ stop_annotating' = StopAfterProject(annotate, stop_annotating, backendName)

\* adj_inc_timestep: adj_variables.increment_timestep()
IncrementTimestep ==
  /\ Idle
  /\ libadjoint_timestep < MaxTimestep
  /\ libadjoint_timestep' = libadjoint_timestep + 1
  /\ UNCHANGED <<lastOp, coeffs, equations, stored, tapeState, val, stop_annotating, record_all,
                 backendName, copies, sweeping, sweepPos, adj, functional, sweepOrder,
                 nextLog, nOps, bypassed, auxVars>>

\* parameters["adjoint"]["stop_annotating"] = b
SetStopAnnotating(b) ==
  /\ Idle
  /\ stop_annotating # b
  /\ stop_annotating' = b
  /\ UNCHANGED <<lastOp, coeffs, libadjoint_timestep, equations, stored, tapeState, val,
                 record_all, backendName, copies, sweeping, sweepPos, adj, functional,
                 sweepOrder, nextLog, nOps, bypassed, auxVars>>

\* replay_dolfin: the first replay freezes the tape
Replay ==
  /\ Idle
  /\ nOps < MaxOps
  /\ nOps' = nOps + 1
  /\ tapeState' = "FROZEN"
  /\ lastOp' = Marker("replay", IF replay_forward(equations, stored) THEN "true" ELSE "false")
  /\ UNCHANGED <<coeffs, libadjoint_timestep, equations, stored, val, stop_annotating,
                 record_all, backendName, copies, sweeping, sweepPos, adj, functional,
                 sweepOrder, nextLog, bypassed, auxVars>>

\* compute_gradient(J, m) with J a functional of the Function j: the sweep starts
\* at the last equation, seeded with dJ/dj
StartGradient(j) ==
  /\ Idle
  /\ nOps < MaxOps
  /\ nOps' = nOps + 1
  /\ tapeState' = "FROZEN"
  /\ coeffs' = functional_dependencies(coeffs, j, libadjoint_timestep)
  /\ adj' = FunctionalSeed(coeffs', equations, j)
  /\ functional' = j
  /\ sweeping' = TRUE
  /\ sweepPos' = SweepStart(equations)
  /\ sweepOrder' = <<>>
  /\ lastOp' = Marker("compute_gradient", "none")
  /\ UNCHANGED <<libadjoint_timestep, equations, stored, val, stop_annotating,
                 record_all, backendName, copies, nextLog, bypassed, auxVars>>

\* one equation of the reverse sweep
SweepStep ==
  /\ sweeping
  /\ sweepPos > 0
  /\ \E vals \in {TapeValues(equations, stored, DOMAIN stored, <<>>)} :
        adj' = SweepEquation(equations, vals, adj, sweepPos)
  /\ sweepPos' = SweepNext(sweepPos, /\ AdjOf(adj, equations[sweepPos].target) # 0
                                     /\ equations[sweepPos].deps # <<>>)
  /\ sweepOrder' = Append(sweepOrder, sweepPos)
  /\ lastOp' = Marker("sweep", "none")
  /\ UNCHANGED <<coeffs, libadjoint_timestep, equations, stored, tapeState, val,
                 stop_annotating, record_all, backendName, copies, sweeping,
                 functional, nextLog, nOps, bypassed, auxVars>>

\* the sweep has passed the first equation: compute_gradient returns
ReturnGradient ==
  /\ sweeping
  /\ sweepPos = 0
  /\ sweeping' = FALSE
  /\ adj' = <<>>
  /\ functional' = "none"
  /\ sweepOrder' = <<>>
  /\ lastOp' = Marker("gradient_returned", "none")
  /\ UNCHANGED <<coeffs, libadjoint_timestep, equations, stored, tapeState, val,
                 stop_annotating, record_all, backendName, copies, sweepPos, nextLog,
                 nOps, bypassed, auxVars>>

\* adj_reset before the next forward run: the tape and the registry start
\* afresh, and the run builds its Functions anew
Clear ==
  /\ Idle
  /\ coeffs' = [n \in Names |-> NoVer]
  /\ libadjoint_timestep' = 0
  /\ equations' = <<>>
  /\ stored' = <<>>
  /\ tapeState' = "BUILDING"
  /\ copies' = 0
  /\ sweeping' = FALSE
  /\ sweepPos' = 0
  /\ adj' = <<>>
  /\ functional' = "none"
  /\ sweepOrder' = <<>>
  /\ nextLog' = [n \in Names |-> <<>>]
  /\ lastOp' = Marker("clear", "none")
  /\ nOps' = 0
  /\ bypassed' = FALSE
  /\ val' = InitVal
  /\ UNCHANGED <<stop_annotating, record_all, backendName, auxVars>>

Next ==
  \/ \E a \in Assignments : Assign(a[1], a[2], a[3])
  \/ \E i \in SolveInputs : Solve(i.A, i.x, i.b, i.annotate, i.ok)
  \/ \E a \in Interpolations : Interpolate(a[1], a[2], a[3])
  \/ \E a \in Projections : Project(a[1], a[2], a[3])
  \/ IncrementTimestep
  \/ \E b \in BOOLEAN : SetStopAnnotating(b)
  \/ Replay
  \/ \E j \in Funcs : StartGradient(j)
  \/ SweepStep
  \/ ReturnGradient
  \/ Clear

Spec == Init /\ [][Next]_vars

\* ------------------------------------------------ linear-combination assigns
\* f.assign(expr, annotate=True) for the sums expr of up to three terms
\* weight * Function, in every order and with repeated Functions
LinComTerms == {<<"f", 2>>, <<"g", 3>>, <<"h", 2>>, <<"g", 1>>}

LinearCombinations ==
  UNION {[1..n -> LinComTerms] : n \in 1..MaxTerms}

LinComAssign(lc) ==
  /\ nOps < MaxLinComAssigns
  /\ Assign("f", LinCom(lc), "True")

LinComNext ==
  \/ \E lc \in LinearCombinations : LinComAssign(lc)
  \/ IncrementTimestep
  \/ Clear

LinComSpec == Init /\ [][LinComNext]_vars

\* ---------------------------------------------- one matrix-free solve
MatrixFreeInit ==
  /\ TapeInit
  /\ matrix_free \in {MatrixFreeStart(t, d, bcs) :
                        t \in {"apply", "apply_transpose"}, d \in BOOLEAN,
                        bcs \in {<<>>, <<Bc(TRUE, 1)>>, <<Bc(FALSE, 1)>>}}
  /\ final_functional = FinalFunctional
  /\ caches = Caches
  /\ call = [op |-> "none"]

\* solve(), lines 73-116: the block keeps the frozen expressions; it refers to
\* A and to b.bcs
MatrixFreeSolve ==
  /\ matrix_free.block = <<>>
  /\ matrix_free' = [matrix_free EXCEPT
         !.block = <<[frozen_expressions_dict |-> matrix_free.expressions]>>,
         !.registered = <<[A |-> matrix_free.A, b_bcs |-> matrix_free.b_bcs]>>]
  /\ UNCHANGED <<tapeVars, final_functional, caches, call>>

\* after solve() returned the user changes the operator's form
SetOperatorForm(form) ==
  /\ matrix_free.block # <<>>
  /\ matrix_free.A.original_form # form
  /\ matrix_free' = [matrix_free EXCEPT !.A.original_form = form]
  /\ UNCHANGED <<tapeVars, final_functional, caches, call>>

\* ... appends a boundary condition to b.bcs
AppendBc(bc) ==
  /\ matrix_free.block # <<>>
  /\ Len(matrix_free.b_bcs) < MaxBcs
  /\ matrix_free' = [matrix_free EXCEPT !.b_bcs = Append(@, bc)]
  /\ UNCHANGED <<tapeVars, final_functional, caches, call>>

\* ... changes the value of an Expression
SetExpression(e) ==
  /\ matrix_free.block # <<>>
  /\ matrix_free.expressions # e
  /\ matrix_free' = [matrix_free EXCEPT !.expressions = e]
  /\ UNCHANGED <<tapeVars, final_functional, caches, call>>

\* the assembly callback as it leaves the objects, lines 91-102
Assembled(mf, values, hermitian) ==
  [mf EXCEPT !.expressions = mf.block[1].frozen_expressions_dict,
             !.A = AssemblyOperator(mf.A, mf.hasDeps, values),
             !.assembled = <<diag_assembly_cb(AssemblyOperator(mf.A, mf.hasDeps, values),
                                              mf.b_bcs, hermitian)>>]

\* a replay (hermitian false) or an adjoint evaluation (hermitian true) of the
\* equation calls diag_assembly_cb with the tape's values of the dependencies
Assemble(values, hermitian) ==
  /\ matrix_free.block # <<>>
  /\ matrix_free' = Assembled(matrix_free, values, hermitian)
  /\ UNCHANGED <<tapeVars, final_functional, caches, call>>

MatrixFreeNext ==
  \/ MatrixFreeSolve
  \/ \E form \in {"a", "a2"} : SetOperatorForm(form)
  \/ \E bc \in {Bc(TRUE, 1), Bc(FALSE, 1)} : AppendBc(bc)
  \/ \E e \in 0..1 : SetExpression(e)
  \/ \E values \in 1..2 : \E hermitian \in BOOLEAN : Assemble(values, hermitian)

MatrixFreeSpec == MatrixFreeInit /\ [][MatrixFreeNext]_vars

\* ---------------------------------------------- queries of a FinalFunctional
\* FinalFunctional.dependencies(adjointer, timestep), lines 40-48, for a
\* functional of the Function j: the list returned
FinalFunctional_dependencies(F, c, j, ts) ==
  IF F.activated = FALSE THEN <<VarOf(functional_dependencies(c, j, ts), j)>> ELSE <<>>

\* libadjoint asks the functional for its dependencies at a timestep; final
\* says whether that is the registry's final timestep
QueryDependencies(j, timestep) ==
  /\ Idle
  /\ Len(final_functional.queries) < MaxQueries
  /\ final_functional' =
       [activated |-> TRUE,
        queries |-> Append(final_functional.queries,
                           [timestep |-> timestep,
                            final |-> timestep = libadjoint_timestep,
                            deps |-> FinalFunctional_dependencies(final_functional, coeffs,
                                                                  j, libadjoint_timestep)])]
  /\ coeffs' = IF final_functional.activated = FALSE
               THEN functional_dependencies(coeffs, j, libadjoint_timestep) ELSE coeffs
  /\ UNCHANGED <<libadjoint_timestep, equations, stored, tapeState, val, stop_annotating,
                 record_all, backendName, copies, sweeping, sweepPos, adj, functional,
                 sweepOrder, nextLog, lastOp, nOps, bypassed, matrix_free, caches, call>>

FunctionalInit == Init

FunctionalNext ==
  \/ \E timestep \in 0..MaxTimestep : QueryDependencies("f", timestep)
  \/ IncrementTimestep

FunctionalSpec == FunctionalInit /\ [][FunctionalNext]_vars

\* ------------------------------------------- assembly and solver caches
\* A Form is its rank, the Constants and Functions it depends on and whether
\* it is written with compound operators.  An object a cache created is the
\* number of its creation.
CacheForms ==
  {[rank |-> 2, coefficients |-> {}, compound |-> FALSE],
   [rank |-> 2, coefficients |-> {}, compound |-> TRUE],
   [rank |-> 2, coefficients |-> {"f"}, compound |-> FALSE],
   [rank |-> 2, coefficients |-> {"f", "g"}, compound |-> FALSE],
   [rank |-> 1, coefficients |-> {"g"}, compound |-> FALSE]}

\* fenics_utils.expand, lines 303-311: the canonical form
expand(form) == [form EXCEPT !.compound = FALSE]

\* form_key, caches.py lines 49-60: the expanded Form, or the test and trial
\* functions of a Form that is not static
form_key(form, static) == IF static THEN <<expand(form)>> ELSE <<"test", "trial">>

\* bc_key, lines 62-76
bc_key(bcs, symmetric_bcs, zero_columns) ==
  IF Len(bcs) = 0 THEN <<>> ELSE <<bcs, symmetric_bcs, zero_columns>>

\* parameters_key of the defaults updated with the parameters given, lines
\* 78-92 and 134-136: parameters is a sequence of <<name, value>>
parameters_key(defaults, parameters) ==
  [n \in DOMAIN defaults |->
     IF \E i \in DOMAIN parameters : parameters[i][1] = n
     THEN parameters[CHOOSE i \in DOMAIN parameters : parameters[i][1] = n][2]
     ELSE defaults[n]]

\* AssemblyCache.assemble, lines 134-139: the key; the defaults are
\* dolfin.parameters["form_compiler"]
AssemblyKey(form, form_compiler_parameters, bcs, symmetric_bcs, zero_columns) ==
  <<form_key(form, TRUE), parameters_key([optimize |-> FALSE], form_compiler_parameters),
    bc_key(bcs, symmetric_bcs, zero_columns)>>

AssemblyCache_assemble_always(cache, key, object) ==
  [k \in DOMAIN cache \cup {key} |-> IF k = key THEN object ELSE cache[k]]

\* AssemblyCache.assemble, lines 140-161, and SolverCache.linear_solver, lines
\* 346-357: the cache after the call; object is what the call would create
AssemblyCache_assemble(cache, key, object) ==
  IF key \in DOMAIN cache THEN cache
  ELSE [k \in DOMAIN cache \cup {key} |-> IF k = key THEN object ELSE cache[k]]

\* the caches after assemble() with this key; raised: a form of rank 1 with
\* boundary conditions, lines 147-148
CacheAssemble(c, key, raised) ==
  IF raised
  THEN [c EXCEPT !.last = [op |-> "assemble", key |-> <<>>, raised |-> TRUE,
                           cached |-> FALSE, returned |-> 0]]
  ELSE [c EXCEPT
          !.assembly = AssemblyCache_assemble(c.assembly, key, c.assembled + 1),
          !.assembled = IF key \in DOMAIN c.assembly THEN @ ELSE @ + 1,
          !.last = [op |-> "assemble", key |-> key, raised |-> FALSE,
                    cached |-> key \in DOMAIN c.assembly,
                    returned |-> AssemblyCache_assemble(c.assembly, key, c.assembled + 1)[key]]]

\* assembly_cache.assemble(form, form_compiler_parameters, bcs, symmetric_bcs,
\* zero_columns), lines 108-161
Assemble_cached(form, form_compiler_parameters, bcs, symmetric_bcs, zero_columns) ==
  /\ \/ AssemblyKey(form, form_compiler_parameters, bcs, symmetric_bcs, zero_columns)
          \in DOMAIN caches.assembly
     \/ caches.assembled + caches.solvers < MaxCached
     \/ Len(bcs) > 0 /\ form.rank # 2
  /\ caches' = CacheAssemble(caches,
                 AssemblyKey(form, form_compiler_parameters, bcs, symmetric_bcs, zero_columns),
                 Len(bcs) > 0 /\ form.rank # 2)
  /\ UNCHANGED <<tapeVars, matrix_free, final_functional, call>>

\* expanded_linear_solver_parameters, lines 270-295, and
\* fenics_utils.expand_linear_solver_parameters, lines 436-462
LinearSolverParameters(static, linear_solver_parameters) ==
  parameters_key([linear_solver |-> "default", reuse_factorization |-> static],
                 linear_solver_parameters)

\* SolverCache.linear_solver, lines 287-334: the call raises.  static is <<>>
\* (None) or <<b>>; a is 0 (None) or the id of a GenericMatrix
LinearSolverRaises(form, p, static, a) ==
  \/ form.rank # 2
  \/ a = 0 /\ p.linear_solver = "lu" /\ p.reuse_factorization /\ static # <<TRUE>>
  \/ a # 0 /\ static # <<>>

\* SolverCache.linear_solver, lines 304-344: the key
SolverKey(form, p, static, bcs, symmetric_bcs, a) ==
  <<form_key(form, a # 0 \/ static = <<TRUE>>),
    <<p.linear_solver, p.reuse_factorization>>,
    <<>>, bc_key(bcs, symmetric_bcs, TRUE), a>>

\* the caches after linear_solver() with this key, lines 346-357
CacheLinearSolver(c, key, raised) ==
  IF raised
  THEN [c EXCEPT !.last = [op |-> "linear_solver", key |-> <<>>, raised |-> TRUE,
                           cached |-> FALSE, returned |-> 0]]
  ELSE [c EXCEPT
          !.solver = AssemblyCache_assemble(c.solver, key, c.solvers + 1),
          !.solvers = IF key \in DOMAIN c.solver THEN @ ELSE @ + 1,
          !.last = [op |-> "linear_solver", key |-> key, raised |-> FALSE,
                    cached |-> key \in DOMAIN c.solver,
                    returned |-> AssemblyCache_assemble(c.solver, key, c.solvers + 1)[key]]]

\* history: the Constants and Functions of the forms each cached solver was
\* handed out for
Requested(c, form) ==
  IF c.last.raised THEN c
  ELSE [c EXCEPT !.requested =
          [k \in DOMAIN c.solver |->
             IF k = c.last.key
             THEN (IF k \in DOMAIN c.requested THEN c.requested[k] ELSE {})
                    \cup form.coefficients
             ELSE c.requested[k]]]

\* the call with the expanded parameters p
LinearSolverCalled(c, form, p, static, bcs, symmetric_bcs, a) ==
  Requested(CacheLinearSolver(c, SolverKey(form, p, static, bcs, symmetric_bcs, a),
                              LinearSolverRaises(form, p, static, a)), form)

\* linear_solver_cache.linear_solver(form, linear_solver_parameters, static =
\* static, bcs = bcs, symmetric_bcs = symmetric_bcs, a = a), lines 217-357
linear_solver(form, linear_solver_parameters, static, bcs, symmetric_bcs, a) ==
  /\ \/ caches.assembled + caches.solvers < MaxCached
     \/ LinearSolverCalled(caches, form,
            LinearSolverParameters(a # 0 \/ static = <<TRUE>>, linear_solver_parameters),
            static, bcs, symmetric_bcs, a).last.cached
     \/ LinearSolverCalled(caches, form,
            LinearSolverParameters(a # 0 \/ static = <<TRUE>>, linear_solver_parameters),
            static, bcs, symmetric_bcs, a).last.raised
  /\ caches' = LinearSolverCalled(caches, form,
                 LinearSolverParameters(a # 0 \/ static = <<TRUE>>, linear_solver_parameters),
                 static, bcs, symmetric_bcs, a)
  /\ UNCHANGED <<tapeVars, matrix_free, final_functional, call>>

AssemblyCache_clear_last(cache, args) ==
  IF Len(args) = 0 THEN <<>>
  ELSE [k \in {k \in DOMAIN cache : args[Len(args)] \notin k[1][1].coefficients}
          |-> cache[k]]

\* AssemblyCache.clear, lines 184-195
AssemblyCache_clear(cache, args) ==
  IF Len(args) = 0 THEN <<>>
  ELSE [k \in {k \in DOMAIN cache :
                 \A i \in DOMAIN args : args[i] \notin k[1][1].coefficients}
          |-> cache[k]]

\* SolverCache.clear, lines 366-377: the loop over the keys runs after the
\* loop over the arguments, with dep the last argument; a key of test and
\* trial functions is no Form
SolverCache_clear(cache, args) ==
  IF Len(args) = 0 THEN <<>>
  ELSE [k \in {k \in DOMAIN cache :
                 ~ (Len(k[1]) = 1 /\ args[Len(args)] \in k[1][1].coefficients)}
          |-> cache[k]]

InvalidArgumentFirst(args) == Len(args) > 0 /\ args[1] \notin {"f", "g"}

\* AssemblyCache.clear, lines 187-189, and SolverCache.clear, lines 370-372:
\* an argument that is no Constant or Function ("V") raises
InvalidArgument(args) == \E i \in DOMAIN args : args[i] \notin {"f", "g"}

\* clear_caches(*args), lines 384-394; assembly_cache.clear raises before
\* anything is removed
clear_caches(args) ==
  /\ caches' =
       IF InvalidArgument(args)
       THEN [caches EXCEPT !.last = [op |-> "clear", key |-> args, raised |-> TRUE,
                                     cached |-> FALSE, returned |-> 0]]
       ELSE [caches EXCEPT !.assembly = AssemblyCache_clear(@, args),
                           !.solver = SolverCache_clear(@, args),
                           !.requested = [k \in DOMAIN SolverCache_clear(caches.solver, args)
                                            |-> @[k]],
                           !.last = [op |-> "clear", key |-> args, raised |-> FALSE,
                                     cached |-> FALSE, returned |-> 0]]
  /\ UNCHANGED <<tapeVars, matrix_free, final_functional, call>>

\* the boundary conditions the calls are made with: bcs, symmetric_bcs,
\* zero_columns
CacheBcs == {<<<<>>, FALSE, TRUE>>, <<<<>>, TRUE, TRUE>>, <<<<"bc">>, FALSE, TRUE>>,
             <<<<"bc">>, TRUE, FALSE>>}

CacheNext ==
  \/ \E form \in CacheForms, bc \in CacheBcs,
        p \in {<<>>, <<<<"optimize", FALSE>>>>, <<<<"optimize", TRUE>>>>} :
       Assemble_cached(form, p, bc[1], bc[2], bc[3])
  \/ \E form \in {form \in CacheForms : ~ form.compound /\ Cardinality(form.coefficients) < 2},
        p \in {<<>>, <<<<"linear_solver", "lu">>, <<"reuse_factorization", TRUE>>>>},
        static \in {<<>>, <<TRUE>>}, bc \in {bc \in CacheBcs : bc[2] = (bc[1] # <<>>)},
        a \in 0..1 :
       linear_solver(form, p, static, bc[1], bc[2], a)
  \/ \E args \in {<<>>, <<"f">>, <<"g">>, <<"f", "g">>, <<"g", "f">>, <<"V">>, <<"f", "V">>,
                     <<"V", "f">>} :
       clear_caches(args)

\* the caches are used with an empty tape
CacheInit == Init /\ ~ record_all /\ backendName = "dolfin"

CacheSpec == CacheInit /\ [][CacheNext]_vars

\* ======================================================= functions without state
\* The functions below read and write nothing but their arguments.  call is
\* the last call made of one of them: its arguments and what it returned.

MaxTime == 2        \* numeric time levels 0..MaxTime
MaxValues == 3      \* values handed to LinComRHS.__call__
MaxRank == 2        \* rank of the form of a TimeTerm

callFrame == <<tapeVars, matrix_free, final_functional, caches>>

\* ---------------------------------------------------------------- LinComRHS
RECURSIVE sum(_, _)
sum(iterable, start) ==
  IF iterable = <<>> THEN start ELSE sum(Tail(iterable), start + Head(iterable))

\* LinComRHS.__call__: zip stops at the shorter of weights and values, and
\* agh[0] of an empty list raises IndexError
LinComRHS_call(weights, values) ==
  LET n == IF Len(weights) < Len(values) THEN Len(weights) ELSE Len(values)
      agh == [i \in 1..n |-> weights[i] * values[i]]
  IN IF agh = <<>> THEN [raised |-> <<"IndexError">>, expr |-> 0]
     ELSE [raised |-> <<>>, expr |-> sum(Tail(agh), agh[1])]

\* one evaluation of the right-hand side of a registered linear combination
RHSCall(weights, values) ==
  /\ call' = [op |-> "LinComRHS", weights |-> weights, values |-> values,
              result |-> LinComRHS_call(weights, values)]
  /\ UNCHANGED callFrame

\* -------------------------------------------------------------- time constants
START_TIME == [kind |-> "start", t |-> 0]
FINISH_TIME == [kind |-> "finish", t |-> 0]
None == [kind |-> "none", t |-> 0]
Number(t) == [kind |-> "number", t |-> t]

Times == {START_TIME, FINISH_TIME} \cup {Number(t) : t \in 0..MaxTime}

\* StartTimeConstant.__eq__ and FinishTimeConstant.__eq__:
\* isinstance(other, <the class of self>)
TimeConstant_eq(self, other) == other.kind = self.kind

\* FinishTimeConstant.__lt__ with the self == other test left out of
\* StartTimeConstant.__lt__
TimeConstant_lt_unguarded(self, other) == self.kind = "start"

\* StartTimeConstant.__lt__ (True unless self == other) and
\* FinishTimeConstant.__lt__ (False)
TimeConstant_lt(self, other) ==
  IF self.kind = "start" THEN ~ TimeConstant_eq(self, other) ELSE FALSE

\* StartTimeConstant.__gt__ (False) and FinishTimeConstant.__gt__ (True
\* unless self == other)
TimeConstant_gt(self, other) ==
  IF self.kind = "start" THEN FALSE ELSE ~ TimeConstant_eq(self, other)

\* TimeConstant.__le__ and TimeConstant.__ge__
TimeConstant_le(self, other) == TimeConstant_eq(self, other) \/ TimeConstant_lt(self, other)

TimeConstant_ge(self, other) == TimeConstant_eq(self, other) \/ TimeConstant_gt(self, other)

IsTimeConstant(x) == x.kind \in {"start", "finish"}

\* a == b, a < b, a > b and a <= b as Python evaluates them: the method of
\* the left operand when it is a time constant; for a number on the left the
\* number's own method returns NotImplemented and the reflected method of the
\* constant on the right is called with the operands swapped
Eq(a, b) ==
  IF IsTimeConstant(a) THEN TimeConstant_eq(a, b)
  ELSE IF IsTimeConstant(b) THEN TimeConstant_eq(b, a) ELSE a.t = b.t

Lt(a, b) ==
  IF IsTimeConstant(a) THEN TimeConstant_lt(a, b)
  ELSE IF IsTimeConstant(b) THEN TimeConstant_gt(b, a) ELSE a.t < b.t

Gt(a, b) ==
  IF IsTimeConstant(a) THEN TimeConstant_gt(a, b)
  ELSE IF IsTimeConstant(b) THEN TimeConstant_lt(b, a) ELSE a.t > b.t

Le(a, b) ==
  IF IsTimeConstant(a) THEN TimeConstant_le(a, b)
  ELSE IF IsTimeConstant(b) THEN TimeConstant_ge(b, a) ELSE a.t <= b.t

\* one comparison of two times with each of the operators
CompareTimes(a, b) ==
  /\ call' = [op |-> "compare", a |-> a, b |-> b, eq |-> Eq(a, b), lt |-> Lt(a, b),
              gt |-> Gt(a, b), le |-> Le(a, b)]
  /\ UNCHANGED callFrame

\* ------------------------------------------------------------------- timeslice
Slice(start, stop, step) ==
  [kind |-> "slice", start |-> start, stop |-> stop, step |-> step]

\* timeslice raising only on stop < start
timeslice_negative_only(inslice) ==
  IF inslice.kind # "slice" THEN [raised |-> FALSE, slice |-> inslice]
  ELSE LET start == IF inslice.start = None THEN START_TIME ELSE inslice.start
           stop == IF inslice.stop = None THEN FINISH_TIME ELSE inslice.stop
       IN IF Lt(stop, start) THEN [raised |-> TRUE, slice |-> inslice]
          ELSE [raised |-> FALSE, slice |-> Slice(start, stop, inslice.step)]

\* timeslice: raised stands for LibadjointErrorInvalidInputs, and slice for the
\* value returned (the argument when nothing is returned)
timeslice(inslice) ==
  IF inslice.kind # "slice" THEN [raised |-> FALSE, slice |-> inslice]
  ELSE LET start == IF inslice.start = None THEN START_TIME ELSE inslice.start
           stop == IF inslice.stop = None THEN FINISH_TIME ELSE inslice.stop
       IN IF Le(stop, start) THEN [raised |-> TRUE, slice |-> inslice]
          ELSE [raised |-> FALSE, slice |-> Slice(start, stop, inslice.step)]

\* the arguments of timeslice: slices with or without a start, a stop and a
\* step, and single times
Slices ==
  {Slice(start, stop, step) : start \in Times \cup {None}, stop \in Times \cup {None},
                              step \in {None, Number(1)}}

\* TimeMeasure.__getitem__ and TimeMeasure.__init__: timeslice(key), and
\* timeslice again of what that returned
TimeMeasure_getitem(key) ==
  /\ call' = [op |-> "timeslice", inslice |-> key, result |-> timeslice(key),
              again |-> IF timeslice(key).raised THEN timeslice(key)
                        ELSE timeslice(timeslice(key).slice)]
  /\ UNCHANGED callFrame

\* --------------------------------------------------------------- is_functional
\* TimeForm.is_functional on the ranks of the forms of self.terms: the loop
\* returns in its first iteration, False for a first term of rank other than
\* 0 and True otherwise, and the function returns None when there is no term
is_functional(terms) ==
  IF terms = <<>> THEN "None"
  ELSE IF terms[1] # 0 THEN "False" ELSE "True"

IsFunctional(terms) ==
  /\ call' = [op |-> "is_functional", terms |-> terms, result |-> is_functional(terms)]
  /\ UNCHANGED callFrame

\* ------------------------------------------------ parameters_key, nested dicts
\* A dictionary of parameters is the sequence of its entries in the order of
\* their insertion.  An entry has a name (names are numbered in their
\* alphabetical order) and either a value or, when nested, a dictionary sub.
ParameterNames == 1..2
ParameterValues == 1..2

Entry(name, value) == [name |-> name, nested |-> FALSE, value |-> value, sub |-> <<>>]
NestedEntry(name, sub) == [name |-> name, nested |-> TRUE, value |-> 0, sub |-> sub]

\* sorted(parameters.keys())
RECURSIVE sorted(_)
sorted(keys) ==
  IF keys = {} THEN <<>>
  ELSE LET least == CHOOSE k \in keys : \A other \in keys : k <= other
       IN <<least>> \o sorted(keys \ {least})

keys(parameters) == {parameters[i].name : i \in DOMAIN parameters}

\* parameters[key]
Item(parameters, key) ==
  parameters[CHOOSE i \in DOMAIN parameters : parameters[i].name = key]

\* parameters_key(parameters) of a dictionary that may hold dictionaries: in
\* the order of the sorted names, the pair (key, value) for a value and
\* parameters_key(value), without the key, for a nested dictionary.  A pair
\* and the key of a nested dictionary are never equal as Python tuples:
\* tuple tells the two apart.
RECURSIVE nested_parameters_key(_)
nested_parameters_key(parameters) ==
  LET order == sorted(keys(parameters))
  IN [i \in DOMAIN order |->
        LET value == Item(parameters, order[i])
        IN IF value.nested
           THEN [tuple |-> TRUE, key |-> 0, value |-> 0,
                 fparameters |-> nested_parameters_key(value.sub)]
           ELSE [tuple |-> FALSE, key |-> order[i], value |-> value.value,
                 fparameters |-> <<>>]]

\* the dictionaries of at most two entries over the given values
DictsOf(values) ==
  {<<>>} \cup {<<e>> : e \in values}
         \cup {<<e, f>> : <<e, f>> \in {p \in values \X values : p[1].name # p[2].name}}

FlatEntries == {Entry(n, v) : n \in ParameterNames, v \in ParameterValues}

\* dictionaries whose values are values or dictionaries of one value
ParameterDicts ==
  DictsOf(FlatEntries \cup {NestedEntry(n, <<e>>) : n \in ParameterNames, e \in FlatEntries})

\* the same entries inserted in the opposite order
Reversed(parameters) ==
  [i \in DOMAIN parameters |-> parameters[Len(parameters) + 1 - i]]

\* the keys of two dictionaries of parameters
ParametersKeys(p, q) ==
  /\ call' = [op |-> "parameters_key", p |-> p, q |-> q,
              key_p |-> nested_parameters_key(p), key_q |-> nested_parameters_key(q)]
  /\ UNCHANGED callFrame

CallNext ==
  \/ \E weights \in UNION {[1..n -> 1..2] : n \in 1..2},
        values \in UNION {[1..n -> 0..1] : n \in 0..MaxValues} :
       RHSCall(weights, values)
  \/ \E a \in Times, b \in Times : CompareTimes(a, b)
  \/ \E key \in Slices \cup Times : TimeMeasure_getitem(key)
  \/ \E terms \in UNION {[1..n -> 0..MaxRank] : n \in 0..MaxTerms} : IsFunctional(terms)
  \/ \E p \in ParameterDicts :
       \E q \in {d \in ParameterDicts : Len(d) <= 1 \/ d = Reversed(p)} :
         ParametersKeys(p, q)

\* the calls are made with an empty tape and empty caches
CallSpec == CacheInit /\ [][CallNext]_vars

\* the sweep of compute_gradient runs to its end once started
FairSpec == Spec /\ WF_vars(SweepStep) /\ WF_vars(ReturnGradient)

\* ================================================================ properties
OverloadedOps == {"assign", "solve", "interpolate", "project"}

\* the step is a call of the overloaded operation op
Called(op) == nOps' = nOps + 1 /\ lastOp'.op = op

VersionLess(a, b) == a[1] < b[1] \/ (a[1] = b[1] /\ a[2] < b[2])

StrictlyIncreasing(log) ==
  \A i \in 1..Len(log) : \A j \in 1..Len(log) : i < j => VersionLess(log[i], log[j])

DistinctTargets(eqs) ==
  \A i \in 1..Len(eqs) : \A j \in 1..Len(eqs) : i # j => eqs[i].target # eqs[j].target

KnownLatest(c, eqs, n) == c[n] # NoVer /\ variable_known(eqs, VarOf(c, n))

C2_TargetsNeverKnown ==
  DistinctTargets(equations) /\ lastOp.path # "TargetKnown"

C2_Witness ==
  /\ lastOp = Marker("solve", "annotated")
  /\ Len(equations) >= 3
  /\ \E i \in 1..Len(equations) : equations[i].kind = "assign"

\* C3: on a FROZEN tape the equation list never changes and no overloaded call
\* ends as annotated: a call that reaches register_equation raises TapeStateError.
C3_FrozenRejectsRegistration ==
  [][(tapeState = "FROZEN" /\ tapeState' = "FROZEN")
       => /\ equations' = equations
          /\ \A op \in OverloadedOps : Called(op) => lastOp'.path # "annotated"]_vars

C3_Witness ==
  /\ tapeState = "FROZEN"
  /\ lastOp.op \in {"assign", "solve"}
  /\ lastOp.path = "TapeStateError"
  /\ equations # <<>>

\* C4: forget of a name whose latest version is known raises StateError and
\* leaves the registry as it was; and a call of Function.assign never ends in
\* that StateError nor removes the registry entry of a name whose latest
\* version is known.
C4_ForgetNeverErasesKnown ==
  [][/\ \A n \in Names : KnownLatest(coeffs, equations, n)
           => /\ Forget(T0, n).err = "StateError"
              /\ Forget(T0, n).coeffs = coeffs
     /\ Called("assign")
           => /\ lastOp'.path # "StateError"
              /\ \A n \in Names : KnownLatest(coeffs, equations, n) => coeffs'[n] # NoVer]_vars

C4_Witness ==
  /\ lastOp = Marker("assign", "annotated")
  /\ nextLog["g"] = << <<0, 0>> >>
  /\ variable_known(equations, <<"g", 0, 0>>)
  /\ KnownLatest(coeffs, equations, "f")

\* C5: every dependency of every equation on the tape is the target of an
\* earlier equation, and no equation has its own target among its dependencies.
C5_DependenciesKnownBefore ==
  /\ Resolvable(equations)
  /\ \A i \in 1..Len(equations) : \A d \in 1..Len(equations[i].deps) :
        equations[i].deps[d][1] # equations[i].target

C5_Witness ==
  /\ lastOp = Marker("assign", "annotated")
  /\ copies = 1
  /\ Len(equations) = 4
  /\ Len(equations[4].deps) = 2

\* the registry, the equations and the stored values are those before the call,
\* and the Functions hold the values given
Untouched(r, values) ==
  /\ r.t.coeffs = coeffs /\ r.t.eqs = equations /\ r.t.stored = stored /\ r.t.log = <<>>
  /\ r.val = values

\* C6: in every state, a call of assign, solve, interpolate or project with
\* annotate=False leaves the registry, the equations and the stored values as
\* they are, and the Function holds the value the backend operation gives.
C6_UnannotatedLeavesTape ==
  Idle =>
    /\ \A self \in Funcs : \A a \in Assignments :
         Untouched(dolfin_adjoint_assign(T0, val, copies, self, a[2], "False",
                                         libadjoint_timestep, tapeState, stop_annotating,
                                         record_all, backendName),
                   IF a[2] = Fn(self) THEN val ELSE dolfin_assign(val, self, a[2]))
    /\ \A i \in SolveInputs :
         Untouched(KrylovSolve(T0, val, i.A, i.x, i.b, "False", TRUE,
                               libadjoint_timestep, tapeState, record_all),
                   [val EXCEPT ![i.x.fn] = SolveValue(i.A, i.b, val)])
    /\ \A self \in Funcs : \A other \in Funcs \cup ConstNames :
         Untouched(Function_interpolate(T0, val, self, other, "False", libadjoint_timestep,
                                        tapeState, stop_annotating, record_all),
                   dolfin_interpolate(val, self, other))
    /\ \A self \in Funcs : \A other \in Funcs :
         Untouched(Function_project(T0, val, self, other, "False", libadjoint_timestep,
                                    tapeState, stop_annotating, record_all, backendName),
                   IF backendName = "dolfin" THEN val ELSE firedrake_project(val, self, other))

C6_Witness ==
  /\ lastOp = Marker("project", "plain")
  /\ equations # <<>>
  /\ \E n \in Funcs : KnownLatest(coeffs, equations, n) /\ val[n] # InitVal[n]

\* what an annotated interpolation leaves on a tape that was empty: its own
\* equation last, and the value of its target stored
InterpolationRegistered(n) ==
  LET e == equations'[Len(equations')]
  IN /\ Len(equations') = n
     /\ e.kind = "interpolate"
     /\ e.target \in DOMAIN stored'
     /\ stored'[e.target] = val'[e.target[1]]

FirstInterpolation ==
  equations = <<>> /\ Called("interpolate") /\ lastOp'.path = "annotated"

C9_ReverseOrder ==
  sweeping =>
    /\ \A k \in 1..Len(sweepOrder) : sweepOrder[k] = Len(equations) - k + 1
    /\ \A k \in 1..Len(sweepOrder) : \A j \in 1..Len(equations) :
         (\E d \in 1..Len(equations[j].deps) :
             equations[j].deps[d][1] = equations[sweepOrder[k]].target)
         => \E m \in 1..(k - 1) : sweepOrder[m] = j

C9_Witness ==
  /\ sweeping
  /\ sweepPos = 0
  /\ Len(sweepOrder) >= 3
  /\ \E v \in DOMAIN adj : adj[v] >= 2

\* C10: a started sweep always returns; it never processes an equation twice,
\* and when it has passed the first equation it has processed every equation.
C10_SweepTerminates ==
  /\ sweeping ~> ~sweeping
  /\ [](sweeping =>
          /\ \A k \in 1..Len(sweepOrder) : \A m \in 1..Len(sweepOrder) :
                k # m => sweepOrder[k] # sweepOrder[m]
          /\ sweepPos = 0 =>
                {sweepOrder[k] : k \in 1..Len(sweepOrder)} = 1..Len(equations))

C10_Witness ==
  /\ sweeping
  /\ sweepPos = 0
  /\ Len(equations) = 4
  /\ Len(sweepOrder) = 4

\* the targets of the initial conditions: the values STORE_CONTROLS_ONLY retains
InitialConditionTargets(eqs) ==
  {eqs[i].target : i \in {k \in 1..Len(eqs) : eqs[k].kind = "ic"}}

\* the gradient of the functional when the values in R are retained and all
\* others are regenerated by forward replay
GradientRetaining(R) ==
  Gradient(equations, TapeValues(equations, stored, R, <<>>),
           FunctionalSeed(coeffs, equations, functional), Len(equations))

\* the sweep of compute_gradient has passed the first equation
SweepDone == sweeping /\ sweepPos = 0

C12_RecordAllMaterialized ==
  record_all =>
    /\ \A i \in 1..Len(equations) : equations[i].target \in DOMAIN stored
    /\ \A v \in DOMAIN stored : variable_known(equations, v)

\* the coefficient of the Function n in the expression lc
RECURSIVE CoefficientOf(_, _)
CoefficientOf(lc, n) ==
  IF lc = <<>> THEN 0
  ELSE (IF lc[1][1] = n THEN lc[1][2] ELSE 0) + CoefficientOf(Tail(lc), n)

\* the Functions that occur in the expression lc
FunctionsOf(lc) == {lc[i][1] : i \in 1..Len(lc)}

\* the dependency that stands for the Function n: the copy when n is the target
DependencyOf(n, self) == VarOf(coeffs', IF n = self THEN CopySeq[copies'] ELSE n)

\* the step registered self := lc as the last equation
LinComRegistered(self, lc) ==
  /\ Assign(self, LinCom(lc), "True")
  /\ lastOp'.path = "annotated"

\* C13: for an assignment of a linear combination registered as a LinComRHS,
\* derivative_action for the dependency of each Function of the expression
\* returns the seed times the sum of that Function's coefficients, whatever
\* the order of the terms, and the equation has one dependency per Function.
C13_LinComDerivative ==
  [][\A lc \in LinearCombinations :
       LinComRegistered("f", lc)
         => /\ Len(equations'[Len(equations')].deps) = Cardinality(FunctionsOf(lc))
            /\ \A n \in FunctionsOf(lc) : \A seed \in 1..2 :
                  derivative_action(equations'[Len(equations')].deps,
                                    DependencyOf(n, "f"), seed)
                    = CoefficientOf(lc, n) * seed]_vars

\* y = 3*g + 2*h + 1*g: two dependencies, dy/dg = 4 and dy/dh = 2
C13_Witness ==
  /\ lastOp = Marker("assign", "annotated")
  /\ equations # <<>>
  /\ equations[Len(equations)].deps = << << <<"g", 0, 0>>, 4 >>, << <<"h", 0, 0>>, 2 >> >>

\* the solve calls that lack the transpose action, x.function or b.form
InvalidSolveInputs ==
  {[i EXCEPT !.A.transpmult = FALSE] : i \in SolveInputs}
  \cup {[i EXCEPT !.x.hasFunction = FALSE] : i \in SolveInputs}
  \cup {[i EXCEPT !.b.hasForm = FALSE] : i \in SolveInputs}

\* the call raised the invalid-input error and changed nothing
Rejected(r) ==
  /\ r.t.err = "InvalidInputs" /\ r.path = "raise"
  /\ Untouched(r, val)

\* C14: in every state, an annotated Krylov solve whose operator has no
\* transpmult, whose x has no .function or whose b has no .form raises the
\* invalid-input error; no version is allocated, no equation registered, no
\* value stored, and the backend solve is not run (x keeps its value).
C14_MissingTransposeRejected ==
  Idle =>
    \A i \in InvalidSolveInputs : \A ok \in BOOLEAN :
       Rejected(KrylovSolve(T0, val, i.A, i.x, i.b, "True", ok,
                            libadjoint_timestep, tapeState, record_all))

C14_Witness ==
  /\ lastOp = Marker("solve", "InvalidInputs")
  /\ Len(equations) >= 2
  /\ nextLog["f"] # <<>>

\* the Dirichlet conditions of bcs, each with value 0
RECURSIVE HomogeneousDirichlet(_)
HomogeneousDirichlet(bcs) ==
  IF bcs = <<>> THEN <<>>
  ELSE (IF bcs[1].dirichlet THEN <<Bc(TRUE, 0)>> ELSE <<>>) \o HomogeneousDirichlet(Tail(bcs))

\* C15: assembled with hermitian=true, the block returns an operator whose mult
\* is A's transpmult and whose transpmult is A's mult, with the homogenized
\* Dirichlet conditions of b.bcs, and A keeps its own mult and transpmult;
\* with hermitian=false it returns A with b.bcs.  When A's mult and transpmult
\* are the same action, both results have that action as mult and as transpmult.
C15_HermitianAssembly ==
  [][\A values \in 1..2 :
       /\ Assemble(values, TRUE)
            => /\ matrix_free'.assembled[1].data.mult = matrix_free.A.transpmult
               /\ matrix_free'.assembled[1].data.transpmult = matrix_free.A.mult
               /\ matrix_free'.assembled[1].bcs = HomogeneousDirichlet(matrix_free.b_bcs)
               /\ matrix_free'.A.mult = matrix_free.A.mult
               /\ matrix_free'.A.transpmult = matrix_free.A.transpmult
               /\ matrix_free.A.mult = matrix_free.A.transpmult
                    => /\ matrix_free'.assembled[1].data.mult = matrix_free.A.mult
                       /\ matrix_free'.assembled[1].data.transpmult = matrix_free.A.mult
                       /\ matrix_free'.assembled[1].data
                            = Assembled(matrix_free, values, FALSE).assembled[1].data
       /\ Assemble(values, FALSE)
            => /\ matrix_free'.assembled[1].data = matrix_free'.A
               /\ matrix_free'.assembled[1].bcs = matrix_free.b_bcs
               /\ matrix_free'.A.mult = matrix_free.A.mult
               /\ matrix_free'.A.transpmult = matrix_free.A.transpmult]_vars

C15_Witness ==
  /\ matrix_free.assembled # <<>>
  /\ matrix_free.assembled[1].data.mult = "apply_transpose"
  /\ matrix_free.assembled[1].data.transpmult = "apply"
  /\ matrix_free.A.mult = "apply"
  /\ matrix_free.b_bcs = <<Bc(TRUE, 1), Bc(FALSE, 1)>>
  /\ matrix_free.assembled[1].bcs = <<Bc(TRUE, 0)>>

\* what the callback would return from the operator and the boundary conditions
\* as they were when solve() registered the equation
AssembledAtRegistration(values, hermitian) ==
  diag_assembly_cb(AssemblyOperator(matrix_free.registered[1].A, matrix_free.hasDeps, values),
                   matrix_free.registered[1].b_bcs, hermitian)

\* C16: whatever the user changed after solve() returned, a replay or an adjoint
\* evaluation of the equation assembles the block from the operator, the
\* boundary conditions and the expressions as they were at registration.
C16_BehaviourFixedAtRegistration ==
  [][\A values \in 1..2 : \A hermitian \in BOOLEAN :
       Assemble(values, hermitian)
         => /\ matrix_free'.assembled[1] = AssembledAtRegistration(values, hermitian)
            /\ matrix_free'.expressions = matrix_free.block[1].frozen_expressions_dict]_vars

\* C17: assembling a matrix-free block changes neither the registered operator
\* nor the registry nor any registered equation.
C17_AssemblyChangesNothing ==
  [][\A values \in 1..2 : \A hermitian \in BOOLEAN :
       Assemble(values, hermitian)
         => /\ matrix_free'.A = matrix_free.A
            /\ coeffs' = coeffs
            /\ equations' = equations]_vars

\* C18: every query of the functional's dependencies returns a non-empty list
\* exactly when it is made for the final timestep.
C18_FinalTimestepOnly ==
  \A i \in 1..Len(final_functional.queries) :
     (final_functional.queries[i].deps # <<>>) <=> final_functional.queries[i].final

\* every entry of the cache before the step is in the cache after it, with the
\* same object
Retained(before, after) ==
  \A k \in DOMAIN before : k \in DOMAIN after /\ after[k] = before[k]

\* the call with this key left the cache as it was if the key was present and
\* added this key alone if not, and returned the object the cache holds
ServedFromCache(before, after, last) ==
  /\ last.key \in DOMAIN after /\ last.returned = after[last.key]
  /\ last.cached = (last.key \in DOMAIN before)
  /\ IF last.key \in DOMAIN before
     THEN after = before
     ELSE DOMAIN after = DOMAIN before \cup {last.key}
          /\ \A k \in DOMAIN before : after[last.key] # before[k]

\* C19: AssemblyCache.assemble and SolverCache.linear_solver return the cached
\* object when the key is present and create an entry at most once per key;
\* a call that is not a clear removes and replaces no entry of either cache,
\* so every earlier key stays present with the same object.
C19_CachedUntilCleared ==
  [][caches'.last.op \in {"assemble", "linear_solver"} =>
       /\ Retained(caches.assembly, caches'.assembly)
       /\ Retained(caches.solver, caches'.solver)
       /\ (caches'.last.op = "assemble" /\ ~ caches'.last.raised) =>
            /\ ServedFromCache(caches.assembly, caches'.assembly, caches'.last)
            /\ caches'.solver = caches.solver
       /\ (caches'.last.op = "linear_solver" /\ ~ caches'.last.raised) =>
            /\ ServedFromCache(caches.solver, caches'.solver, caches'.last)
            /\ caches'.assembly = caches.assembly
       /\ caches'.last.raised =>
            caches'.assembly = caches.assembly /\ caches'.solver = caches.solver]_vars

\* a call found its key in a cache that holds other entries too, those of an
\* assembled form and of a solver among them
C19_Witness ==
  /\ caches.last.op \in {"assemble", "linear_solver"}
  /\ caches.last.cached
  /\ Cardinality(DOMAIN caches.assembly) >= 1
  /\ Cardinality(DOMAIN caches.solver) >= 1
  /\ Cardinality(DOMAIN caches.assembly) + Cardinality(DOMAIN caches.solver) = MaxCached

\* C20: AssemblyCache.clear() empties the assembly cache; clear(d1, ..., dn)
\* removes exactly the entries whose form depends on one of d1..dn or more
\* and leaves every other entry present with the same object.
C20_ClearRemovesDependents ==
  [][(caches'.last.op = "clear" /\ ~ caches'.last.raised) =>
       /\ DOMAIN caches'.assembly =
            IF caches'.last.key = <<>> THEN {}
            ELSE {k \in DOMAIN caches.assembly :
                    \A i \in DOMAIN caches'.last.key :
                       caches'.last.key[i] \notin k[1][1].coefficients}
       /\ \A k \in DOMAIN caches'.assembly : caches'.assembly[k] = caches.assembly[k]]_vars

\* after a clear with two arguments one assembled form is left of the two there were
C20_Witness ==
  /\ caches.last.op = "clear" /\ ~ caches.last.raised
  /\ Len(caches.last.key) = 2
  /\ DOMAIN caches.assembly # {}
  /\ Cardinality(DOMAIN caches.assembly) < caches.assembled

\* C21: SolverCache.clear(d1, ..., dn) removes every cached linear solver,
\* static or not, that was handed out for a form depending on one of d1..dn
\* or more, and no other solver; with no argument it removes all.
C21_SolverClearRemovesDependents ==
  [][(caches'.last.op = "clear" /\ ~ caches'.last.raised) =>
       /\ DOMAIN caches'.solver =
            IF caches'.last.key = <<>> THEN {}
            ELSE {k \in DOMAIN caches.solver :
                    \A i \in DOMAIN caches'.last.key :
                       caches'.last.key[i] \notin caches.requested[k]}
       /\ \A k \in DOMAIN caches'.solver : caches'.solver[k] = caches.solver[k]]_vars

\* C27: clear called with an argument that is no Constant or Function, at
\* whatever position, raises and leaves both caches as they were; an assemble
\* or linear_solver call that raises adds no entry.
C27_RaisingCallsChangeNothing ==
  [][/\ (caches'.last.op = "clear"
           /\ \E i \in DOMAIN caches'.last.key : caches'.last.key[i] \notin {"f", "g"})
          => caches'.last.raised
     /\ caches'.last.raised =>
          /\ caches'.assembly = caches.assembly
          /\ caches'.solver = caches.solver]_vars

\* a clear whose second argument is a FunctionSpace raised with an assembled
\* form and a solver of forms that depend on the first argument in the caches
C27_Witness ==
  /\ caches.last.op = "clear" /\ caches.last.raised
  /\ caches.last.key = <<"f", "V">>
  /\ \E k \in DOMAIN caches.assembly : "f" \in k[1][1].coefficients
  /\ \E k \in DOMAIN caches.solver : "f" \in caches.requested[k]

\* C25: a call of Function.assign that ends as a pure initial condition
\* registers no equation and leaves the variable registry as it was: no
\* version of any Function is advanced or removed, so the next annotated
\* operation gets the version it would have got without the call.
C25_RejectedAssignKeepsNumbering ==
  [][(Called("assign") /\ lastOp'.path = "plain_initial")
       => /\ equations' = equations
          /\ stored' = stored
          /\ coeffs' = coeffs
          /\ nextLog' = nextLog]_vars

\* the Functions the expression other is made of
SourcesOf(other) ==
  IF other.kind = "lincom" THEN FunctionsOf(other.terms) ELSE {other.fn}

\* annotation is in effect for the call, the sources are Functions of the
\* target's space and the tape knows the latest version of each
AnnotatedAssignOfKnown(self, other, annotate) ==
  /\ annotate = "True" \/ (annotate = "None" /\ ~stop_annotating)
  /\ other.kind \in {"fn", "lincom"}
  /\ \A n \in SourcesOf(other) :
        /\ n \in Funcs \cup ReadOnly \cup OtherSpace
        /\ fspace[n] = fspace[self]
        /\ KnownLatest(coeffs, equations, n)

\* C26: when annotation is in effect, target and sources share a function
\* space and every source is known to the tape, Function.assign registers
\* exactly one new equation, for a new version of the assigned Function, for a
\* single Function and for a linear combination alike; when self is other it
\* changes nothing.
C26_AssignRegistersOneEquation ==
  [][\A a \in Assignments :
       Assign(a[1], a[2], a[3]) =>
         IF a[2].kind = "fn" /\ a[2].fn = a[1]
         THEN UNCHANGED <<coeffs, equations, stored, val>>
         ELSE AnnotatedAssignOfKnown(a[1], a[2], a[3]) =>
                /\ Len(equations') = Len(equations) + 1
                /\ equations'[Len(equations')].target = VarOf(coeffs', a[1])
                /\ ~ variable_known(equations, VarOf(coeffs', a[1]))]_vars

\* C22: a call of LinComRHS.__call__ with a number of values other than the
\* number of weights of the block fails; it never returns a value computed
\* from the shorter of the two lists.
C22_LengthMismatchRaises ==
  (call.op = "LinComRHS" /\ Len(call.values) # Len(call.weights))
    => call.result.raised # <<>>

\* the place of a time in the order: START_TIME below every number and
\* FINISH_TIME above
Rank(time) ==
  IF time.kind = "start" THEN -1 ELSE IF time.kind = "finish" THEN MaxTime + 1 ELSE time.t

\* C23: timeslice returns what is not a slice unchanged; of a slice it takes
\* START_TIME for a missing start and FINISH_TIME for a missing stop, raises
\* exactly when the stop is not after the start in the time order, and
\* otherwise returns the slice of that start, that stop and the given step,
\* which timeslice returns unchanged when applied to it again.
C23_TimesliceNormalises ==
  call.op = "timeslice" =>
    IF call.inslice.kind # "slice"
    THEN ~ call.result.raised /\ call.result.slice = call.inslice
    ELSE LET start == IF call.inslice.start = None THEN START_TIME ELSE call.inslice.start
             stop == IF call.inslice.stop = None THEN FINISH_TIME ELSE call.inslice.stop
         IN /\ call.result.raised <=> Rank(stop) <= Rank(start)
            /\ ~ call.result.raised =>
                 /\ call.result.slice = Slice(start, stop, call.inslice.step)
                 /\ call.again = call.result

\* a slice without a start was accepted, and a second pass returned it as it was
C23_Witness ==
  /\ call.op = "timeslice"
  /\ call.inslice.kind = "slice"
  /\ call.inslice.start = None
  /\ call.inslice.stop = Number(1)
  /\ ~ call.result.raised
  /\ call.result.slice = Slice(START_TIME, Number(1), call.inslice.step)
  /\ call.again = call.result

\* C28: two dictionaries of parameters, nested or not, have the same
\* parameters_key exactly when they hold the same entries, whatever the
\* order their entries were inserted in.
RECURSIVE Entries(_)
Entries(parameters) ==
  {<<parameters[i].name, parameters[i].nested, parameters[i].value,
     Entries(parameters[i].sub)>> : i \in DOMAIN parameters}

C28_ParametersKeyInjective ==
  call.op = "parameters_key" =>
    ((call.key_p = call.key_q) <=> (Entries(call.p) = Entries(call.q)))

\* C29: TimeForm.is_functional returns True when the form of every term has
\* rank 0 and False otherwise, for any number of terms.
C29_IsFunctionalEveryTerm ==
  call.op = "is_functional" =>
    call.result = (IF \A i \in DOMAIN call.terms : call.terms[i] = 0 THEN "True" ELSE "False")

\* C30: the comparisons of START_TIME, FINISH_TIME and numbers are those of
\* one total order with START_TIME below every number and FINISH_TIME above:
\* exactly one of a < b, a == b and a > b holds, a <= b is a < b or a == b,
\* and each constant equals itself.
C30_TimeOrder ==
  call.op = "compare" =>
    /\ call.lt <=> Rank(call.a) < Rank(call.b)
    /\ call.eq <=> Rank(call.a) = Rank(call.b)
    /\ call.gt <=> Rank(call.a) > Rank(call.b)
    /\ call.le <=> (call.lt \/ call.eq)

\* a number on the left was compared with FINISH_TIME on the right
C30_Witness ==
  /\ call.op = "compare"
  /\ call.a = Number(MaxTime)
  /\ call.b = FINISH_TIME
  /\ call.lt /\ call.le /\ ~ call.eq /\ ~ call.gt

====
